---- MODULE Spec2Model ----
(***************************************************************************)
(* Model of the GeoFlight backend: pattern generators, WaypointSimplifier, *)
(* WPMLBuilder and KMZPackager.                                            *)
(*                                                                         *)
(* Numbers.  Python floats are modelled by integers with exact arithmetic. *)
(* Coordinates are counted in a small unit of arc around (0, 0); one unit  *)
(* of arc is one unit of distance on the ground.  Sequences are 1-based in *)
(* TLA+, so the Python position i is the TLA+ position i + 1: the index    *)
(* sets of the simplifier keep the Python (0-based) numbering.             *)
(*                                                                         *)
(* Optional[float] values are modelled as sets: {} is None, {v} is v.      *)
(***************************************************************************)
EXTENDS Integers, Sequences, FiniteSets, TLC

VARIABLES
    pc,            \* what the caller did last
    waypoints,     \* the waypoint list the caller currently holds
    original,      \* the list that was handed to simplify (before the call)
    config,        \* the WaypointSimplifier the caller constructed, or NoConfig
    raised,        \* the exception that ended the last call, or "none"
    pattern,       \* the pattern generator that was called, or "none"
    area,          \* the area arguments generate was called with
    builders,      \* builders[b]: the WPMLBuilder b of a KMZPackager, or None
    docs,          \* docs[b]: the documents builder b returned last
    first_docs,    \* first_docs[b]: the documents builder b returned first
    namespace_map, \* the namespace registry of xml.etree (module-global)
    kmz,           \* the archive create_kmz returned last, or None
    stats,         \* stats[b]: what get_mission_stats of packager b returned last, or None
    calc,          \* what the PhotogrammetryCalculator returned last, or None
    transformers   \* the projection _setup_transformers chose last, or None

vars == <<pc, waypoints, original, config, raised, pattern, area,
          builders, docs, first_docs, namespace_map, kmz, stats, calc, transformers>>

----------------------------------------------------------------------------
(* Bounds of the model *)

MaxLen == 4          \* longest caller-supplied waypoint list
StraightLen == 5     \* length of the straight run of the turn scenario

(* Input domains *)
Headings == {0, 90, 355}
Speeds == {1, 3}
Indices == {0, 1, 7}
AngleThresholds == {1, 10, 95}
Distances == {2, 3}
Times == {0, 1, 2}      \* 0: a time budget that is given and falsy

None == {}
Some(v) == {v}
Truthy(o) == o # {} /\ o # {0}          \* Python truth value of an Optional[float]
ValueOf(o) == CHOOSE v \in o : TRUE

Abs(x) == IF x < 0 THEN -x ELSE x
Min(S) == CHOOSE x \in S : \A y \in S : x <= y

RECURSIVE IsqrtFrom(_, _)
IsqrtFrom(n, r) == IF (r + 1) * (r + 1) > n THEN r ELSE IsqrtFrom(n, r + 1)
Isqrt(n) == IsqrtFrom(n, 0)

----------------------------------------------------------------------------
(* models.py: Waypoint *)

Waypoint(index, longitude, latitude, altitude, heading, gimbal_pitch, speed, take_photo) ==
    [index |-> index, longitude |-> longitude, latitude |-> latitude,
     altitude |-> altitude, heading |-> heading, gimbal_pitch |-> gimbal_pitch,
     speed |-> speed, take_photo |-> take_photo]

Position(wp) == <<wp.longitude, wp.latitude>>

----------------------------------------------------------------------------
(* waypoint_simplifier.py *)

\* WaypointSimplifier.__init__
WaypointSimplifier(angle_threshold_deg, max_distance_between_m, max_time_between_s, speed_ms) ==
    [angle_threshold_deg |-> angle_threshold_deg,
     max_distance_between_m |-> max_distance_between_m,
     max_time_between_s |-> max_time_between_s,
     speed_ms |-> speed_ms]

DefaultSpeedMs == 5

NoConfig == [angle_threshold_deg |-> 0, max_distance_between_m |-> None,
             max_time_between_s |-> None, speed_ms |-> 0]

\* Great-circle distance in whole units.  Around (0, 0) and at the scale of
\* the model the haversine formula is the planar distance; it is exact for
\* two points on one meridian or both on the equator, and rounded down
\* otherwise.
haversine_distance(lat1, lon1, lat2, lon2) ==
    Isqrt((lat2 - lat1) * (lat2 - lat1) + (lon2 - lon1) * (lon2 - lon1))

\* the heading difference of lines 117-119 (360/0 wrap-around)
heading_diff(prev_heading, curr_heading) ==
    LET diff == Abs(curr_heading - prev_heading)
    IN  IF diff > 180 THEN 360 - diff ELSE diff

\* Python position i of a list
At(wps, i) == wps[i + 1]

\* a faulty variant: the last waypoint is not marked critical
find_critical_waypoints_first_only(self, wps) ==
    {0} \cup
    UNION { {i - 1, i} : i \in { k \in 1..(Len(wps) - 1) :
                heading_diff(At(wps, k - 1).heading, At(wps, k).heading)
                    >= self.angle_threshold_deg } }

\* a faulty variant: the comparison with the threshold is inverted
find_critical_waypoints_inverted(self, wps) ==
    {0, Len(wps) - 1} \cup
    UNION { {i - 1, i} : i \in { k \in 1..(Len(wps) - 1) :
                heading_diff(At(wps, k - 1).heading, At(wps, k).heading)
                    <= self.angle_threshold_deg } }

\* a faulty variant: only the waypoint at the turn is marked, not the one before it
find_critical_waypoints_turn_only(self, wps) ==
    {0, Len(wps) - 1} \cup
    { k \in 1..(Len(wps) - 1) :
        heading_diff(At(wps, k - 1).heading, At(wps, k).heading)
            >= self.angle_threshold_deg }

\* a faulty variant: the heading difference is taken without the wrap-around
find_critical_waypoints_linear(self, wps) ==
    {0, Len(wps) - 1} \cup
    UNION { {i - 1, i} : i \in { k \in 1..(Len(wps) - 1) :
                Abs(At(wps, k).heading - At(wps, k - 1).heading)
                    >= self.angle_threshold_deg } }

\* lines 110-126
find_critical_waypoints(self, wps) ==
    {0, Len(wps) - 1} \cup
    UNION { {i - 1, i} : i \in { k \in 1..(Len(wps) - 1) :
                heading_diff(At(wps, k - 1).heading, At(wps, k).heading)
                    >= self.angle_threshold_deg } }

\* faulty variant of lines 152-157: the time budget is applied in addition to
\* the distance budget (the smaller of the two distances is allowed)
max_dist_from_both(self, wps, start_idx) ==
    LET speed == IF At(wps, start_idx).speed # 0 THEN At(wps, start_idx).speed ELSE self.speed_ms
        by_time == ValueOf(self.max_time_between_s) * speed
    IN  IF Truthy(self.max_time_between_s)
        THEN IF Truthy(self.max_distance_between_m) /\ ValueOf(self.max_distance_between_m) < by_time
             THEN self.max_distance_between_m
             ELSE Some(by_time)
        ELSE self.max_distance_between_m

\* lines 152-157: the distance allowed after the critical waypoint start_idx
max_dist_from(self, wps, start_idx) ==
    IF Truthy(self.max_time_between_s)
    THEN LET speed == IF At(wps, start_idx).speed # 0
                      THEN At(wps, start_idx).speed ELSE self.speed_ms
         IN  Some(ValueOf(self.max_time_between_s) * speed)
    ELSE self.max_distance_between_m

\* a faulty variant of the inner loop: a waypoint is added only when the
\* accumulated distance exceeds the budget
RECURSIVE walk_between_strict(_, _, _, _, _)
walk_between_strict(wps, j, end_idx, accumulated_distance, max_dist) ==
    IF j >= end_idx THEN {}
    ELSE LET acc == accumulated_distance +
                    haversine_distance(At(wps, j - 1).latitude, At(wps, j - 1).longitude,
                                       At(wps, j).latitude, At(wps, j).longitude)
         IN  IF acc > max_dist
             THEN {j} \cup walk_between_strict(wps, j + 1, end_idx, 0, max_dist)
             ELSE walk_between_strict(wps, j + 1, end_idx, acc, max_dist)

\* lines 163-184: the inner loop over j in range(start_idx + 1, end_idx),
\* from position j on with the distance accumulated so far
RECURSIVE walk_between(_, _, _, _, _)
walk_between(wps, j, end_idx, accumulated_distance, max_dist) ==
    IF j >= end_idx THEN {}
    ELSE LET acc == accumulated_distance +
                    haversine_distance(At(wps, j - 1).latitude, At(wps, j - 1).longitude,
                                       At(wps, j).latitude, At(wps, j).longitude)
         IN  IF acc >= max_dist
             THEN {j} \cup walk_between(wps, j + 1, end_idx, 0, max_dist)
             ELSE walk_between(wps, j + 1, end_idx, acc, max_dist)

add_intermediate_waypoints(self, wps, critical_indices) ==
    critical_indices \cup
    UNION { LET end_idx == Min({c \in critical_indices : c > start_idx})
                max_dist == max_dist_from(self, wps, start_idx)
            IN  IF end_idx - start_idx <= 1 THEN {}
                ELSE IF ~Truthy(max_dist) THEN {}
                ELSE walk_between(wps, start_idx + 1, end_idx, 0, ValueOf(max_dist))
          : start_idx \in { c \in critical_indices :
                              \E d \in critical_indices : d > c } }

\* a faulty variant: the kept positions from the last to the first
RECURSIVE sorted_descending(_)
sorted_descending(S) ==
    IF S = {} THEN <<>>
    ELSE LET m == CHOOSE x \in S : \A y \in S : y <= x
         IN  <<m>> \o sorted_descending(S \ {m})

\* sorted(critical_indices) as a sequence
RECURSIVE sorted(_)
sorted(S) == IF S = {} THEN <<>> ELSE <<Min(S)>> \o sorted(S \ {Min(S)})

\* lines 67-74: the 0-based positions of the input that simplify keeps
kept_indices(self, wps) ==
    LET critical_indices == find_critical_waypoints(self, wps)
    IN  IF Truthy(self.max_distance_between_m) \/ Truthy(self.max_time_between_s)
        THEN add_intermediate_waypoints(self, wps, critical_indices)
        ELSE critical_indices

\* a faulty variant: a copy that keeps the index the waypoint came with
reindexed_kept(i, wp) == wp

\* lines 81-91: the copy of a kept waypoint with its new index
reindexed(i, wp) ==
    Waypoint(i, wp.longitude, wp.latitude, wp.altitude, wp.heading,
             wp.gimbal_pitch, wp.speed, wp.take_photo)

simplify(self, wps) ==
    IF Len(wps) <= 2 THEN wps
    ELSE LET order == sorted(kept_indices(self, wps))
         IN  [i \in 1..Len(order) |-> reindexed(i - 1, At(wps, order[i]))]

----------------------------------------------------------------------------
(* Callers of the simplifier: the lists they supply and the simplifiers    *)
(* they construct                                                          *)

Optional(S) == {None} \cup { Some(v) : v \in S }

Simplifiers ==
    { WaypointSimplifier(a, d, t, DefaultSpeedMs) :
        a \in AngleThresholds, d \in Optional(Distances), t \in Optional(Times) }

\* a list along the meridian 0: waypoint k lies hop(k) units north of its
\* predecessor
RECURSIVE LatOf(_, _)
LatOf(hop, k) == IF k <= 1 THEN 0 ELSE LatOf(hop, k - 1) + hop[k]

MeridianList(n, index, heading, speed, hop) ==
    [k \in 1..n |-> Waypoint(index[k], 0, LatOf(hop, k), 50, heading[k], -90, speed[k], TRUE)]

\* lists of 0..MaxLen waypoints one unit apart, with any headings and speeds,
\* indexed by position
GeneralLists ==
    UNION { { MeridianList(n, [k \in 1..n |-> k - 1], heading, speed, [k \in 1..n |-> 1]) :
                heading \in [1..n -> Headings], speed \in [1..n -> Speeds] }
          : n \in 0..MaxLen }

\* lists of 0..MaxLen waypoints one or two units apart, straight or with one turn
HopLists ==
    UNION { { MeridianList(n, [k \in 1..n |-> k - 1],
                           [k \in 1..n |-> IF k >= 3 THEN turn ELSE 0],
                           [k \in 1..n |-> 1], hop) :
                hop \in [1..n -> {1, 2}], turn \in {0, 90} }
          : n \in 0..MaxLen }

\* lists of 0..MaxLen waypoints carrying any index values
IndexedLists ==
    UNION { { MeridianList(n, index, [k \in 1..n |-> IF k % 2 = 0 THEN turn ELSE 0],
                           [k \in 1..n |-> 1], [k \in 1..n |-> 1]) :
                index \in [1..n -> Indices], turn \in {0, 90} }
          : n \in 0..MaxLen }

\* a straight run of n waypoints heading 0
StraightRun(n) ==
    MeridianList(n, [k \in 1..n |-> k - 1], [k \in 1..n |-> 0],
                 [k \in 1..n |-> 1], [k \in 1..n |-> 1])

\* the straight run with one waypoint of heading 90 inserted as the waypoint
\* at Python position p (0 <= p <= n)
RunWithTurnAt(n, p) ==
    MeridianList(n + 1, [k \in 1..(n + 1) |-> k - 1],
                 [k \in 1..(n + 1) |-> IF k = p + 1 THEN 90 ELSE 0],
                 [k \in 1..(n + 1) |-> 1], [k \in 1..(n + 1) |-> 1])

\* a run of n waypoints that turns from heading 355 to heading 5 at Python
\* position 2
WrapRun(n) ==
    MeridianList(n, [k \in 1..n |-> k - 1], [k \in 1..n |-> IF k <= 2 THEN 355 ELSE 5],
                 [k \in 1..n |-> 1], [k \in 1..n |-> 1])

ScenarioLists ==
    {StraightRun(StraightLen), WrapRun(StraightLen)} \cup
    { RunWithTurnAt(StraightLen, p) : p \in 0..StraightLen }

SuppliedLists == GeneralLists \cup HopLists \cup IndexedLists \cup ScenarioLists

----------------------------------------------------------------------------
(* patterns/base.py *)

MaxLines == 2        \* most scan lines, corridor lines or orbit rings of a pattern

FlightAngles == {0, 90, 180, 270}
LineLengths == {1, 4}
PhotoSpacings == {1, 2}

Max(a, b) == IF a >= b THEN a ELSE b

\* models.py FlightParams: the fields the pattern generators read
FlightParams(altitude_m, line_spacing_m, photo_spacing_m, max_speed_ms) ==
    [altitude_m |-> altitude_m, line_spacing_m |-> line_spacing_m,
     photo_spacing_m |-> photo_spacing_m, max_speed_ms |-> max_speed_ms]

\* PatternGenerator.__init__: the attributes a generator object has
PatternGenerator(flight_params, flight_angle_deg) ==
    [flight_params |-> flight_params, flight_angle_deg |-> flight_angle_deg]

Generators ==
    { PatternGenerator(FlightParams(60, 1, s, 3), a) : s \in PhotoSpacings, a \in FlightAngles }

\* _get_utm_zone: int((lon + 180) / 6) + 1; lon + 180 is not negative for a
\* longitude of a Coordinate, where int() is the whole part
get_utm_zone(lon) == ((lon + 180) \div 6) + 1

\* _setup_transformers: the zone and the EPSG code of the two transformers
setup_transformers(center_lon, center_lat) ==
    LET zone == get_utm_zone(center_lon)
        hemisphere == IF center_lat >= 0 THEN "north" ELSE "south"
        epsg_utm == IF hemisphere = "north" THEN 32600 + zone ELSE 32700 + zone
    IN  [epsg_utm |-> epsg_utm, center |-> <<center_lon, center_lat>>, utm_zone |-> zone]

\* the local planar frame: eastings carry the false easting of the zone
to_utm(lon, lat) == <<lon + 500000, lat>>
to_wgs84(x, y) == <<x - 500000, y>>

\* math.degrees(math.atan2(dx, dy)) for the eight compass directions
atan2_degrees(dx, dy) ==
    CASE dx = 0 /\ dy >= 0 -> 0
      [] dx = 0 /\ dy < 0 -> 180
      [] dy = 0 /\ dx > 0 -> 90
      [] dy = 0 /\ dx < 0 -> -90
      [] dx > 0 /\ dy = dx -> 45
      [] dx > 0 /\ dy = -dx -> 135
      [] dx < 0 /\ dy = dx -> -135
      [] dx < 0 /\ dy = -dx -> -45

\* faulty variant of _calculate_heading: the angle of atan2 as it is
calculate_heading_signed(from_pt, to_pt) == atan2_degrees(to_pt[1] - from_pt[1], to_pt[2] - from_pt[2])

calculate_heading(from_pt, to_pt) ==
    LET dx == to_pt[1] - from_pt[1]
        dy == to_pt[2] - from_pt[2]
        heading == atan2_degrees(dx, dy)
    IN  (heading + 360) % 360

create_waypoint(self, index, lon, lat, heading, gimbal_pitch, take_photo) ==
    Waypoint(index, lon, lat, self.flight_params.altitude_m, heading, gimbal_pitch,
             self.flight_params.max_speed_ms, take_photo)

\* sine and cosine of a multiple of 90 degrees and, times the square root of
\* 2, of an odd multiple of 45 degrees.  A computation takes the sine and the
\* cosine of one angle, or of angles 90 degrees apart, so that what it yields
\* for a diagonal angle is exact up to that one positive factor.
sin_deg(a) ==
    CASE a % 360 = 0 -> 0 [] a % 360 = 90 -> 1 [] a % 360 = 180 -> 0 [] a % 360 = 270 -> -1
      [] a % 360 = 45 -> 1 [] a % 360 = 135 -> 1 [] a % 360 = 225 -> -1 [] a % 360 = 315 -> -1
cos_deg(a) == sin_deg(a + 90)

\* shapely: a LineString is the sequence of its coordinates; the model's lines
\* are straight, so length and interpolation read the two end points only
line_length(line) ==
    LET dx == line[Len(line)][1] - line[1][1]
        dy == line[Len(line)][2] - line[1][2]
    IN  Isqrt(dx * dx + dy * dy)

\* line.interpolate(num / den, normalized=True), rounded down to the unit
interpolate(line, num, den) ==
    LET a == line[1]
        b == line[Len(line)]
    IN  <<a[1] + ((b[1] - a[1]) * num) \div den, a[2] + ((b[2] - a[2]) * num) \div den>>

reversed_line(line) == [k \in 1..Len(line) |-> line[Len(line) + 1 - k]]

\* the photo stations of one line (grid.py lines 139-160, corridor.py lines
\* 212-234), the first of them with the given index
line_stations(self, line, index, gimbal_pitch) ==
    LET heading == calculate_heading(line[1], line[Len(line)])
        photo_spacing == self.flight_params.photo_spacing_m
        num_photos == Max(2, (line_length(line) \div photo_spacing) + 1)
    IN  [j \in 1..num_photos |->
            LET point == interpolate(line, j - 1, num_photos - 1)
                lonlat == to_wgs84(point[1], point[2])
            IN  create_waypoint(self, index + (j - 1), lonlat[1], lonlat[2],
                                heading, gimbal_pitch, TRUE)]

RECURSIVE lines_to_waypoints_from(_, _, _, _, _)
lines_to_waypoints_from(self, lines, i, index, gimbal_pitch) ==
    IF i > Len(lines) THEN <<>>
    ELSE IF Len(lines[i]) < 2
         THEN lines_to_waypoints_from(self, lines, i + 1, index, gimbal_pitch)
         ELSE LET stations == line_stations(self, lines[i], index, gimbal_pitch)
              IN  stations \o lines_to_waypoints_from(self, lines, i + 1,
                                                      index + Len(stations), gimbal_pitch)

----------------------------------------------------------------------------
(* patterns/grid.py, patterns/double_grid.py *)

\* The polygon of the model is a rectangle aligned with the flight direction:
\* the clipping leaves num_clipped scan lines of length clipped_length.  The
\* scan lines are horizontal lines stepped by line_spacing in y and turned by
\* -angle about the center (here the corner of the rectangle).
clipped_lines(self, num_clipped, clipped_length) ==
    LET angle == self.flight_angle_deg
        origin == to_utm(0, 0)
        \* rotate(line, -angle): (x, y) -> (x cos a + y sin a, -x sin a + y cos a)
        turn(x, y) == <<origin[1] + x * cos_deg(angle) + y * sin_deg(angle),
                        origin[2] - x * sin_deg(angle) + y * cos_deg(angle)>>
    IN  [k \in 1..num_clipped |->
            <<turn(0, (k - 1) * self.flight_params.line_spacing_m),
              turn(clipped_length, (k - 1) * self.flight_params.line_spacing_m)>>]

\* grid.py lines 105-116: the key the clipped lines are sorted by (twice the
\* midpoint, to stay in whole numbers)
sort_key(self, line) ==
    LET perpendicular_angle == self.flight_angle_deg + 90
        mid2 == <<line[1][1] + line[Len(line)][1], line[1][2] + line[Len(line)][2]>>
    IN  mid2[1] * cos_deg(perpendicular_angle) + mid2[2] * sin_deg(perpendicular_angle)

\* list.sort(key=...): stable
RECURSIVE sort_by_key(_, _)
sort_by_key(self, lines) ==
    IF lines = <<>> THEN <<>>
    ELSE LET least == Min({ sort_key(self, lines[k]) : k \in 1..Len(lines) })
             at == Min({ k \in 1..Len(lines) : sort_key(self, lines[k]) = least })
             rest == [k \in 1..(Len(lines) - 1) |-> IF k < at THEN lines[k] ELSE lines[k + 1]]
         IN  <<lines[at]>> \o sort_by_key(self, rest)

\* grid.py lines 112-123: the clipped lines sorted, every other one reversed
serpentine_lines(self, clipped) ==
    LET sorted_lines == sort_by_key(self, clipped)
    IN  [i \in 1..Len(sorted_lines) |->
            IF (i - 1) % 2 = 1 THEN reversed_line(sorted_lines[i]) ELSE sorted_lines[i]]

generate_grid_lines(self, num_clipped, clipped_length) ==
    serpentine_lines(self, clipped_lines(self, num_clipped, clipped_length))

grid_lines_to_waypoints(self, lines) == lines_to_waypoints_from(self, lines, 1, 0, -90)

\* GridPatternGenerator.generate; polygon_coords is the number of vertices
grid_generate(self, polygon_coords, num_clipped, clipped_length) ==
    IF polygon_coords < 3 THEN <<>>
    ELSE LET lines == generate_grid_lines(self, num_clipped, clipped_length)
         IN  IF lines = <<>> THEN <<>> ELSE grid_lines_to_waypoints(self, lines)

\* A polygon of any convex shape, given by what the clipping leaves of the
\* scan lines: chords[k] = <<left, right>> is the stretch of the k-th scan
\* line inside the polygon, measured along the line before it is turned.
clipped_chords(self, chords) ==
    LET angle == self.flight_angle_deg
        origin == to_utm(0, 0)
        turn(x, y) == <<origin[1] + x * cos_deg(angle) + y * sin_deg(angle),
                        origin[2] - x * sin_deg(angle) + y * cos_deg(angle)>>
    IN  [k \in 1..Len(chords) |->
            <<turn(chords[k][1], (k - 1) * self.flight_params.line_spacing_m),
              turn(chords[k][2], (k - 1) * self.flight_params.line_spacing_m)>>]

\* GridPatternGenerator.generate over such a polygon
grid_generate_chords(self, polygon_coords, chords) ==
    IF polygon_coords < 3 THEN <<>>
    ELSE LET lines == serpentine_lines(self, clipped_chords(self, chords))
         IN  IF lines = <<>> THEN <<>> ELSE grid_lines_to_waypoints(self, lines)

\* faulty variant of DoubleGridPatternGenerator.generate: the second pass is
\* not re-indexed
double_grid_generate_no_offset(self, polygon_coords, clip1, clip2) ==
    IF polygon_coords < 3 THEN <<>>
    ELSE grid_generate(self, polygon_coords, clip1[1], clip1[2]) \o
         grid_generate([self EXCEPT !.flight_angle_deg = (self.flight_angle_deg + 90) % 360],
                       polygon_coords, clip2[1], clip2[2])

\* DoubleGridPatternGenerator.generate: clip1 and clip2 are what the clipping
\* leaves of the first and of the second pass
double_grid_generate(self, polygon_coords, clip1, clip2) ==
    IF polygon_coords < 3 THEN <<>>
    ELSE LET first_pass == grid_generate(self, polygon_coords, clip1[1], clip1[2])
             original_angle == self.flight_angle_deg
             turned == [self EXCEPT !.flight_angle_deg = (original_angle + 90) % 360]
             second_pass == grid_generate(turned, polygon_coords, clip2[1], clip2[2])
             offset == Len(first_pass)
         IN  first_pass \o
             [k \in 1..Len(second_pass) |->
                 [second_pass[k] EXCEPT !.index = second_pass[k].index + offset]]

----------------------------------------------------------------------------
(* patterns/corridor.py *)

Sign(x) == IF x > 0 THEN 1 ELSE IF x < 0 THEN -1 ELSE 0

\* the unit vector of an axis-parallel line
direction(line) ==
    <<Sign(line[Len(line)][1] - line[1][1]), Sign(line[Len(line)][2] - line[1][2])>>

\* _extend_line
extend_line(line, distance) ==
    IF Len(line) < 2 THEN line
    ELSE LET d == direction(line)
         IN  <<<<line[1][1] - d[1] * distance, line[1][2] - d[2] * distance>>,
               <<line[2][1] + d[1] * distance, line[2][2] + d[2] * distance>>>>

\* centerline.parallel_offset(distance, side): the left of direction (dx, dy)
\* is (-dy, dx).  right_reversed: whether the library returns a right-hand
\* offset in the reverse direction (it depends on the shapely version).
parallel_offset(centerline, distance, side, right_reversed) ==
    LET d == direction(centerline)
        normal == IF side = "left" THEN <<-d[2], d[1]>> ELSE <<d[2], -d[1]>>
        moved == [k \in 1..Len(centerline) |->
                    <<centerline[k][1] + normal[1] * distance,
                      centerline[k][2] + normal[2] * distance>>]
    IN  IF side = "right" /\ right_reversed THEN reversed_line(moved) ELSE moved

\* the offsets of _generate_parallel_lines, rounded down to the unit
line_offsets(width, num_lines) ==
    IF num_lines = 1 THEN <<0>>
    ELSE [k \in 1..num_lines |-> (-(width \div 2)) + ((k - 1) * width) \div (num_lines - 1)]

\* one pass of the loop of _generate_parallel_lines for line i (0-based):
\* the lines it appends
parallel_line(centerline, offset, i, failed, right_reversed) ==
    IF offset # 0 /\ i \in failed THEN <<>>
    ELSE LET line == IF offset = 0 THEN centerline
                     ELSE LET moved == parallel_offset(centerline, Abs(offset),
                                          IF offset > 0 THEN "left" ELSE "right",
                                          right_reversed)
                          IN  IF offset < 0 THEN reversed_line(moved) ELSE moved
         IN  <<IF i % 2 = 1 THEN reversed_line(line) ELSE line>>

RECURSIVE parallel_lines_from(_, _, _, _, _)
parallel_lines_from(centerline, offsets, k, failed, right_reversed) ==
    IF k > Len(offsets) THEN <<>>
    ELSE parallel_line(centerline, offsets[k], k - 1, failed, right_reversed)
         \o parallel_lines_from(centerline, offsets, k + 1, failed, right_reversed)

clamp_num_lines(num_lines) == Max(1, Min({5, num_lines}))

\* failed: the lines (0-based) whose parallel offset fails
generate_parallel_lines(centerline, width, num_lines, failed, right_reversed) ==
    parallel_lines_from(centerline, line_offsets(width, clamp_num_lines(num_lines)), 1,
                        failed, right_reversed)

corridor_lines_to_waypoints(self, lines) == lines_to_waypoints_from(self, lines, 1, 0, -90)

\* what the geometry library makes of a corridor call: the polygon's minimum
\* rotated rectangle (long edges running north, long_edge > short_edge), the
\* length of the given centerline (running north), and the offsets that fail
Geometry(long_edge, short_edge, length, failed, right_reversed) ==
    [long_edge |-> long_edge, short_edge |-> short_edge, length |-> length,
     failed |-> failed, right_reversed |-> right_reversed]

\* _generate_from_polygon: the centerline joins the midpoints of the two
\* longest edges of the rectangle, the width is the length of a short edge
polygon_lines(self, num_lines, g) ==
    LET origin == to_utm(0, 0)
        mid1 == <<origin[1], origin[2] + g.long_edge \div 2>>
        mid2 == <<origin[1] + g.short_edge, origin[2] + g.long_edge \div 2>>
        corridor_width == g.short_edge
        extension == self.flight_params.line_spacing_m * 2
        centerline == extend_line(<<mid1, mid2>>, extension)
    IN  generate_parallel_lines(centerline, corridor_width, num_lines,
                                g.failed, g.right_reversed)

corridor_generate_from_polygon(self, num_lines, g) ==
    corridor_lines_to_waypoints(self, polygon_lines(self, num_lines, g))

\* _generate_from_centerline up to its last line: the lines of the corridor
centerline_lines(self, corridor_width_m, num_lines, g) ==
    LET origin == to_utm(0, 0)
        extension == self.flight_params.line_spacing_m * 2
        centerline == extend_line(<<origin, <<origin[1], origin[2] + g.length>>>>, extension)
    IN  generate_parallel_lines(centerline, corridor_width_m,
                                clamp_num_lines(num_lines), g.failed, g.right_reversed)

corridor_generate_from_centerline(self, corridor_width_m, num_lines, g) ==
    corridor_lines_to_waypoints(self, centerline_lines(self, corridor_width_m, num_lines, g))

\* CorridorPatternGenerator.generate; polygon_coords and centerline_coords are
\* None or the number of points given
corridor_generate(self, polygon_coords, centerline_coords, corridor_width_m, num_lines, g) ==
    IF Truthy(polygon_coords) /\ ValueOf(polygon_coords) >= 3
    THEN corridor_generate_from_polygon(self, num_lines, g)
    ELSE IF Truthy(centerline_coords) /\ ValueOf(centerline_coords) >= 2
    THEN corridor_generate_from_centerline(self,
             IF Truthy(corridor_width_m) THEN ValueOf(corridor_width_m) ELSE 50,
             num_lines, g)
    ELSE <<>>

----------------------------------------------------------------------------
(* patterns/orbit.py *)

MaxPitch == 15       \* no ring is pitched above -MaxPitch degrees
PitchStep == 10

\* a faulty variant of _generate_orbit: the pitch of a ring is not clamped
generate_orbit_unclamped(self, center_utm, radius, num_orbits, altitude_step_m, photos_per_orbit, start_gimbal_pitch) ==
    LET angle_step == 360 \div photos_per_orbit
        station(orbit_num, i) ==
            LET lonlat == to_wgs84(center_utm[1] + radius * sin_deg(i * angle_step),
                                   center_utm[2] + radius * cos_deg(i * angle_step))
            IN  Waypoint(orbit_num * photos_per_orbit + i, lonlat[1], lonlat[2],
                         self.flight_params.altitude_m + orbit_num * altitude_step_m,
                         (i * angle_step + 180) % 360,
                         start_gimbal_pitch + orbit_num * PitchStep,
                         self.flight_params.max_speed_ms, TRUE)
    IN  [k \in 1..(num_orbits * photos_per_orbit) |->
            station((k - 1) \div photos_per_orbit, (k - 1) % photos_per_orbit)]

\* _generate_orbit
generate_orbit(self, center_utm, radius, num_orbits, altitude_step_m, photos_per_orbit, start_gimbal_pitch) ==
    LET base_altitude == self.flight_params.altitude_m
        angle_step == 360 \div photos_per_orbit
        station(orbit_num, i) ==
            LET altitude == base_altitude + orbit_num * altitude_step_m
                pitch == start_gimbal_pitch + orbit_num * PitchStep
                gimbal_pitch == IF pitch < -MaxPitch THEN pitch ELSE -MaxPitch
                angle_deg == i * angle_step
                x == center_utm[1] + radius * sin_deg(angle_deg)
                y == center_utm[2] + radius * cos_deg(angle_deg)
                lonlat == to_wgs84(x, y)
                heading == (angle_deg + 180) % 360
            IN  Waypoint(orbit_num * photos_per_orbit + i, lonlat[1], lonlat[2], altitude,
                         heading, gimbal_pitch, self.flight_params.max_speed_ms, TRUE)
    IN  [k \in 1..(num_orbits * photos_per_orbit) |->
            station((k - 1) \div photos_per_orbit, (k - 1) % photos_per_orbit)]

\* the arguments of OrbitPatternGenerator.generate; center is TRUE when a
\* center is given (the model's center is (0, 0))
OrbitArgs(polygon_coords, center, radius_m, num_orbits, altitude_step_m, photos_per_orbit, start_gimbal_pitch) ==
    [polygon_coords |-> polygon_coords, center |-> center, radius_m |-> radius_m,
     num_orbits |-> num_orbits, altitude_step_m |-> altitude_step_m,
     photos_per_orbit |-> photos_per_orbit, start_gimbal_pitch |-> start_gimbal_pitch]

\* line 44: start_gimbal_pitch, else self.gimbal_pitch_deg; the constructor
\* sets no such attribute, and reading it raises AttributeError
orbit_raises(self, args) ==
    args.start_gimbal_pitch = None /\ "gimbal_pitch_deg" \notin DOMAIN self

\* OrbitPatternGenerator.generate when line 44 does not raise; polygon_radius
\* is 1.2 times the distance from the centroid to the farthest vertex
orbit_generate(self, args, polygon_radius) ==
    LET gimbal_pitch == IF args.start_gimbal_pitch # None
                        THEN ValueOf(args.start_gimbal_pitch) ELSE self.gimbal_pitch_deg
    IN  IF Truthy(args.polygon_coords) /\ ValueOf(args.polygon_coords) >= 3
        THEN generate_orbit(self, to_utm(0, 0), polygon_radius, args.num_orbits,
                            args.altitude_step_m, args.photos_per_orbit, gimbal_pitch)
        ELSE IF args.center /\ Truthy(args.radius_m)
        THEN generate_orbit(self, to_utm(0, 0), ValueOf(args.radius_m), args.num_orbits,
                            args.altitude_step_m, args.photos_per_orbit, gimbal_pitch)
        ELSE <<>>

----------------------------------------------------------------------------
(* wpml_builder.py *)

WPML_NAMESPACE == "http://www.dji.com/wpmz/1.0.2"
KML_NAMESPACE == "http://www.opengis.net/kml/2.2"

\* models.py FinishAction
FinishAction == {"goHome", "noAction", "autoLand", "gotoFirstWaypoint"}

\* WPMLBuilder.__init__ for the one drone model of the model (Mini 4 Pro)
WPMLBuilder(wps) ==
    [waypoints |-> wps, drone_enum_value |-> 68, payload_enum_value |-> 52]

\* ET.register_namespace(prefix, uri) on the registry, a set of
\* <<prefix, uri>>: entries with the same uri or the same prefix are dropped
register_namespace(map, prefix, uri) ==
    { e \in map : e[1] # prefix /\ e[2] # uri } \cup { <<prefix, uri>> }

\* the prefix the registry gives to the elements of a namespace when a tree
\* is written as text; an unregistered namespace gets a generated prefix
qname_prefix(map, uri) ==
    IF \E e \in map : e[2] = uri
    THEN (CHOOSE e \in map : e[2] = uri)[1]
    ELSE "ns0"

\* an action element: its id, its actuator function and the parameter that
\* depends on the waypoint
Action(actionId, actionActuatorFunc, param) ==
    [actionId |-> actionId, actionActuatorFunc |-> actionActuatorFunc, param |-> param]

\* the actionGroup element of a waypoint that takes a photo (lines 386-462,
\* and 277-332 in the template)
action_group(wp) ==
    [actionGroupId |-> wp.index,
     actionGroupStartIndex |-> wp.index,
     actionGroupEndIndex |-> wp.index,
     actionGroupMode |-> "sequence",
     actionTriggerType |-> "reachPoint",
     actions |-> <<Action(0, "gimbalRotate", <<"gimbalPitchRotateAngle", wp.gimbal_pitch>>),
                   Action(1, "takePhoto", <<"payloadPositionIndex", 0>>)>>]

Placemark(wp, poi, turn_mode) ==
    [coordinates |-> <<wp.longitude, wp.latitude>>,
     index |-> wp.index,
     executeHeight |-> wp.altitude,
     waypointSpeed |-> wp.speed,
     waypointHeadingMode |-> "smoothTransition",
     waypointHeadingAngle |-> wp.heading,
     waypointPoiPoint |-> poi,
     waypointHeadingPathMode |-> "followBadArc",
     waypointTurnMode |-> turn_mode,
     useStraightLine |-> 1,
     actionGroups |-> IF wp.take_photo THEN <<action_group(wp)>> ELSE <<>>]

\* _create_template_placemark
create_template_placemark(self, wp) ==
    Placemark(wp, Some("0.000000,0.000000,0.000000"), "coordinateTurn")

\* _create_wpml_placemark
create_wpml_placemark(self, wp) == Placemark(wp, None, "coordinateTurn")

\* the element tree of a document: the mission info elements it has, its
\* finishAction, the autoFlightSpeed of its folder and the placemarks
Document(kind, mission_info, finishAction, autoFlightSpeed, placemarks) ==
    [kind |-> kind, mission_info |-> mission_info, finishAction |-> finishAction,
     autoFlightSpeed |-> autoFlightSpeed, placemarks |-> placemarks]

\* the registrations build_template_kml makes (lines 36-37)
template_namespaces(map) ==
    register_namespace(register_namespace(map, "", KML_NAMESPACE), "wpml", WPML_NAMESPACE)

\* a faulty variant: build_waylines_wpml registers nothing
waylines_namespaces_unregistered(map) == map

\* the registration build_waylines_wpml makes (line 140)
waylines_namespaces(map) == register_namespace(map, "", WPML_NAMESPACE)

\* build_template_kml up to the call of _prettify: the tree it builds
build_template_kml(self, finish_action) ==
    Document("template", {"author", "createTime", "updateTime"}, finish_action,
             IF self.waypoints # <<>> THEN self.waypoints[1].speed ELSE 5,
             [k \in 1..Len(self.waypoints) |-> create_template_placemark(self, self.waypoints[k])])

\* build_waylines_wpml up to the call of _prettify
build_waylines_wpml(self) ==
    Document("waylines", {"author", "createTime", "updateTime"}, "goHome",
             IF self.waypoints # <<>> THEN self.waypoints[1].speed ELSE 5,
             [k \in 1..Len(self.waypoints) |-> create_wpml_placemark(self, self.waypoints[k])])

\* the names build_waylines_wpml takes besides self (line 134)
build_waylines_wpml_parameters == {}

\* _prettify: the tree written as text; the vendor elements are written with
\* the prefix the registry holds for their namespace at that moment.  The
\* layout of the text is not modelled.
prettify(elem, map) == [tree |-> elem, vendor_prefix |-> qname_prefix(map, WPML_NAMESPACE)]

----------------------------------------------------------------------------
(* kmz_packager.py *)

\* zf.writestr(name, content)
ZipEntry(name, content) == [name |-> name, content |-> content]

\* KMZPackager.create_kmz: the exception it raises ("none" if it returns),
\* the registry it leaves and the archive it returns
create_kmz(self, finish_action, map) ==
    LET gimbal_pitch == IF self.waypoints # <<>> THEN self.waypoints[1].gimbal_pitch ELSE -90
        map1 == template_namespaces(map)
        template_kml == prettify(build_template_kml(self, finish_action), map1)
        keywords == {"gimbal_pitch"}
    IN  IF ~(keywords \subseteq build_waylines_wpml_parameters)
        THEN [raised |-> "TypeError", map |-> map1, archive |-> None]
        ELSE LET map2 == waylines_namespaces(map1)
                 waylines_wpml == prettify(build_waylines_wpml(self), map2)
             IN  [raised |-> "none", map |-> map2,
                  archive |-> Some(<<ZipEntry("wpmz/template.kml", template_kml),
                                     ZipEntry("wpmz/waylines.wpml", waylines_wpml)>>)]

\* one decimal place of round(x, 1), in distance units: a unit is a hundredth
\* of a metre
Tenth == 10

\* round(x, 1): the multiples of a tenth a sum of x units rounds to; a sum
\* half way between two of them is stored as a float on either side of the
\* half, so both neighbours are outcomes
round_1(x) ==
    LET r == x % Tenth
    IN  CASE 2 * r < Tenth -> {x - r}
          [] 2 * r > Tenth -> {x - r + Tenth}
          [] OTHER -> {x - r, x - r + Tenth}

\* the body of the loop of get_mission_stats: the straight-line distance
\* between two consecutive waypoints, altitude included
hop_distance_squared(prev, curr) ==
    LET lat_diff == curr.latitude - prev.latitude
        lon_diff == curr.longitude - prev.longitude
        alt_diff == curr.altitude - prev.altitude
    IN  lat_diff * lat_diff + lon_diff * lon_diff + alt_diff * alt_diff

hop_distance(prev, curr) == Isqrt(hop_distance_squared(prev, curr))

RECURSIVE total_distance_from(_, _)
total_distance_from(wps, i) ==
    IF i > Len(wps) THEN 0
    ELSE hop_distance(wps[i - 1], wps[i]) + total_distance_from(wps, i + 1)

\* faulty variant of get_mission_stats: the distance is not rounded
get_mission_stats_unrounded(self) ==
    { [waypoint_count |-> Len(self.waypoints),
       estimated_distance_m |-> total_distance_from(self.waypoints, 2),
       estimated_photos |-> Cardinality({ i \in 1..Len(self.waypoints) : self.waypoints[i].take_photo })] }

\* KMZPackager.get_mission_stats: the dictionaries it can return
get_mission_stats(self) ==
    IF self.waypoints = <<>>
    THEN { [waypoint_count |-> 0, estimated_distance_m |-> 0, estimated_photos |-> 0] }
    ELSE LET total_distance == total_distance_from(self.waypoints, 2)
             photo_count == Cardinality({ i \in 1..Len(self.waypoints) : self.waypoints[i].take_photo })
         IN  { [waypoint_count |-> Len(self.waypoints),
                estimated_distance_m |-> d,
                estimated_photos |-> photo_count] : d \in round_1(total_distance) }

----------------------------------------------------------------------------
(* calculator.py *)

\* The floats of the calculator are exact fractions <<numerator, denominator>>
\* in lowest terms with a positive denominator.
RECURSIVE Gcd(_, _)
Gcd(a, b) == IF b = 0 THEN a ELSE Gcd(b, a % b)

Frac(n, d) ==
    LET g == Gcd(Abs(n), Abs(d))
    IN  IF d < 0 THEN <<-(n \div g), (-d) \div g>> ELSE <<n \div g, d \div g>>

Whole(n) == <<n, 1>>

\* x * y, cancelled crosswise before the products are taken
Times2(x, y) ==
    LET a == Frac(x[1], y[2])
        b == Frac(y[1], x[2])
    IN  Frac(a[1] * b[1], a[2] * b[2])

\* x / y for y other than 0
Over(x, y) == Times2(x, Frac(y[2], y[1]))

Minus(x, y) == Frac(x[1] * y[2] - y[1] * x[2], x[2] * y[2])

\* math.floor and math.ceil
Floor(x) == x[1] \div x[2]
Ceil(x) == -((-x[1]) \div x[2])

\* int(x): the fraction is cut off towards 0
int(x) == IF x[1] >= 0 THEN x[1] \div x[2] ELSE -((-x[1]) \div x[2])

Pow10(k) == IF k = 0 THEN 1 ELSE IF k = 1 THEN 10 ELSE IF k = 2 THEN 100 ELSE 1000

\* round(x, ndigits) for x >= 0: to the nearest, a half to the even neighbour
round(x, ndigits) ==
    LET scaled == Times2(x, Whole(Pow10(ndigits)))
        low == Floor(scaled)
        twice == 2 * (scaled[1] - low * scaled[2])
        up == twice > scaled[2] \/ (twice = scaled[2] /\ low % 2 = 1)
    IN  Frac(IF up THEN low + 1 ELSE low, Pow10(ndigits))

\* models.py CameraSpec: the fields the calculator reads
CameraSpec(sensor_width_mm, sensor_height_mm, focal_length_mm, image_width_px, min_interval_12mp, min_interval_48mp) ==
    [sensor_width_mm |-> sensor_width_mm, sensor_height_mm |-> sensor_height_mm,
     focal_length_mm |-> focal_length_mm, image_width_px |-> image_width_px,
     min_interval_12mp |-> min_interval_12mp, min_interval_48mp |-> min_interval_48mp]

\* CAMERA_PRESETS: the optics of the Mini 4 Pro and of the Mini 5 Pro (the two
\* presets differ in the enum values of the documents only)
CAMERA_PRESETS ==
    { CameraSpec(Frac(959, 100), Frac(719, 100), Frac(672, 100), Whole(8064), Whole(2), Whole(5)) }

\* a camera a caller describes: sensor 10 mm by 8 mm, focal length 5 mm, 4000
\* pixels across
PlainCamera == CameraSpec(Whole(10), Whole(8), Whole(5), Whole(4000), Whole(2), Whole(5))

\* another one: sensor 12 mm by 9 mm, focal length 4 mm, 3000 pixels across
WideCamera == CameraSpec(Whole(12), Whole(9), Whole(4), Whole(3000), Whole(2), Whole(5))

PhotogrammetryCalculator(camera) == [camera |-> camera]

\* faulty variant of gsd_to_altitude: the factor 100 (cm per m) is left out
gsd_to_altitude_metres(self, gsd_cm) ==
    Over(Times2(Times2(gsd_cm, self.camera.focal_length_mm), self.camera.image_width_px),
         self.camera.sensor_width_mm)

gsd_to_altitude(self, gsd_cm) ==
    Over(Times2(Times2(gsd_cm, self.camera.focal_length_mm), self.camera.image_width_px),
         Times2(self.camera.sensor_width_mm, Whole(100)))

altitude_to_gsd(self, altitude_m) ==
    Over(Times2(Times2(self.camera.sensor_width_mm, altitude_m), Whole(100)),
         Times2(self.camera.focal_length_mm, self.camera.image_width_px))

\* calculate_footprint: <<width, height>>
calculate_footprint(self, altitude_m) ==
    <<Times2(Over(self.camera.sensor_width_mm, self.camera.focal_length_mm), altitude_m),
      Times2(Over(self.camera.sensor_height_mm, self.camera.focal_length_mm), altitude_m)>>

\* calculate_spacing: <<photo_spacing, line_spacing>>
calculate_spacing(self, altitude_m, front_overlap_pct, side_overlap_pct) ==
    LET footprint == calculate_footprint(self, altitude_m)
    IN  <<Times2(footprint[2], Minus(Whole(1), Frac(front_overlap_pct, 100))),
          Times2(footprint[1], Minus(Whole(1), Frac(side_overlap_pct, 100)))>>

min_interval(self, use_48mp) ==
    IF use_48mp THEN self.camera.min_interval_48mp ELSE self.camera.min_interval_12mp

calculate_max_speed(self, photo_spacing_m, use_48mp) ==
    Over(photo_spacing_m, min_interval(self, use_48mp))

\* calculate_flight_params; area_m2 is None or the area, a whole square
calculate_flight_params(self, target_gsd_cm, front_overlap_pct, side_overlap_pct, use_48mp, area_m2) ==
    LET altitude == gsd_to_altitude(self, target_gsd_cm)
        actual_gsd == altitude_to_gsd(self, altitude)
        footprint == calculate_footprint(self, altitude)
        spacing == calculate_spacing(self, altitude, front_overlap_pct, side_overlap_pct)
        photo_spacing == spacing[1]
        line_spacing == spacing[2]
        max_speed == calculate_max_speed(self, photo_spacing, use_48mp)
        interval == min_interval(self, use_48mp)
        estimated == Truthy(area_m2) /\ ValueOf(area_m2) > 0
        area_value == Whole(ValueOf(area_m2))
        effective_coverage == Times2(photo_spacing, line_spacing)
        side_length == Whole(Isqrt(ValueOf(area_m2)))
        num_lines == Over(side_length, line_spacing)
        flight_distance == Times2(Times2(side_length, num_lines), Frac(11, 10))
        flight_time == Over(Over(flight_distance, max_speed), Whole(60))
    IN  [altitude_m |-> round(altitude, 1),
         line_spacing_m |-> round(line_spacing, 2),
         photo_spacing_m |-> round(photo_spacing, 2),
         max_speed_ms |-> round(max_speed, 2),
         estimated_photos |->
             IF estimated THEN int(Times2(Over(area_value, effective_coverage), Frac(12, 10))) ELSE 0,
         gsd_cm_px |-> round(actual_gsd, 3),
         footprint_width_m |-> round(footprint[1], 2),
         footprint_height_m |-> round(footprint[2], 2),
         photo_interval_s |-> interval,
         estimated_flight_time_min |-> IF estimated THEN round(flight_time, 1) ELSE Whole(0)]

----------------------------------------------------------------------------
(* Operations *)

MaxDocLen == 3       \* longest mission of the builders that exist from the start

BuilderIds == {"a", "b"}
FinishActionInputs == {"goHome", "autoLand"}

Area(polygon_coords, centerline_coords, center, radius_m, start_gimbal_pitch) ==
    [polygon_coords |-> polygon_coords, centerline_coords |-> centerline_coords,
     center |-> center, radius_m |-> radius_m, start_gimbal_pitch |-> start_gimbal_pitch]

NoArea == Area(None, None, FALSE, None, None)
NoDocs == [waylines |-> None, template |-> None]

\* the caller takes the list a generator returned
Generated(name, args, wps) ==
    /\ pc' = "generated"
    /\ pattern' = name
    /\ area' = args
    /\ waypoints' = wps
    /\ UNCHANGED <<transformers, original, config, raised, builders, docs, first_docs, namespace_map, kmz, stats, calc>>

\* GridPatternGenerator(flight_params, flight_angle_deg).generate(polygon_coords)
GenerateGrid ==
    /\ pc = "start"
    /\ \E self \in Generators, n \in {2, 3}, num_clipped \in 0..MaxLines, length \in LineLengths :
           Generated("grid", Area(Some(n), None, FALSE, None, None),
                     grid_generate(self, n, num_clipped, length))

\* the flight angles of the grid on its own: the compass and the diagonals
GridAngles == {0, 45, 90, 135, 180, 225, 270, 315}

\* the chords of convex polygons on up to MaxLines + 1 scan lines: the left
\* ends bend outwards, the right ends bend outwards
ChordEnds == { <<l, r>> : l \in {0, 1}, r \in {2, 4, 6} }
IsConvex(chords) ==
    \A k \in 2..(Len(chords) - 1) :
        /\ 2 * chords[k][1] <= chords[k - 1][1] + chords[k + 1][1]
        /\ 2 * chords[k][2] >= chords[k - 1][2] + chords[k + 1][2]
ConvexChords ==
    { chords \in UNION { [1..n -> ChordEnds] : n \in 0..(MaxLines + 1) } : IsConvex(chords) }

\* GridPatternGenerator(flight_params, flight_angle_deg).generate(polygon_coords)
\* with a photo spacing longer than any chord: the stations are the end points
GenerateGridOverPolygon ==
    /\ pc = "start"
    /\ \E a \in GridAngles, n \in {2, 3}, chords \in ConvexChords :
           Generated("grid", Area(Some(n), None, FALSE, None, None),
                     grid_generate_chords(PatternGenerator(FlightParams(60, 1, 100, 3), a),
                                          n, chords))

\* DoubleGridPatternGenerator(...).generate(polygon_coords)
DoubleGridCall(self, n, clip1, clip2) ==
    Generated("double_grid", Area(Some(n), None, FALSE, None, None),
              double_grid_generate(self, n, clip1, clip2))

GenerateDoubleGrid ==
    /\ pc = "start"
    /\ \E self \in Generators, n \in {2, 3},
          clip1 \in (0..MaxLines) \X LineLengths, clip2 \in (0..MaxLines) \X LineLengths :
           DoubleGridCall(self, n, clip1, clip2)

\* CorridorPatternGenerator(...).generate(polygon_coords, centerline_coords,
\* corridor_width_m, num_lines)
GenerateCorridor ==
    /\ pc = "start"
    /\ \E self \in Generators,
          polygon_coords \in {None, Some(0), Some(2), Some(4)},
          centerline_coords \in {None, Some(1), Some(2)},
          corridor_width_m \in {None, Some(4), Some(6)},
          num_lines \in 1..(MaxLines + 2),
          length \in LineLengths,
          failed \in SUBSET (0..MaxLines),
          right_reversed \in BOOLEAN :
           Generated("corridor", Area(polygon_coords, centerline_coords, FALSE, None, None),
                     corridor_generate(self, polygon_coords, centerline_coords, corridor_width_m,
                                       num_lines,
                                       Geometry(6, 4, length, failed, right_reversed)))

\* OrbitPatternGenerator(...).generate(polygon_coords, center, radius_m, ...)
GenerateOrbit ==
    /\ pc = "start"
    /\ \E self \in Generators,
          polygon_coords \in {None, Some(2), Some(3)},
          center \in BOOLEAN,
          radius_m \in {None, Some(0), Some(2)},
          num_orbits \in 1..MaxLines,
          photos_per_orbit \in {2, 4},
          start_gimbal_pitch \in {None, Some(-45), Some(-20), Some(-10)} :
           LET args == OrbitArgs(polygon_coords, center, radius_m, num_orbits, 10,
                                 photos_per_orbit, start_gimbal_pitch)
               given == Area(polygon_coords, None, center, radius_m, start_gimbal_pitch)
           IN  IF orbit_raises(self, args)
               THEN /\ pc' = "failed"
                    /\ pattern' = "orbit"
                    /\ area' = given
                    /\ raised' = "AttributeError"
                    /\ UNCHANGED <<transformers, waypoints, original, config, builders, docs, first_docs,
                                   namespace_map, kmz, stats, calc>>
               ELSE Generated("orbit", given, orbit_generate(self, args, 3))

\* WaypointSimplifier(...).simplify(waypoints); the caller keeps the result
Simplify(self) ==
    /\ pc \in {"supplied", "generated"}
    /\ pc' = "simplified"
    /\ config' = self
    /\ original' = waypoints
    /\ waypoints' = simplify(self, waypoints)
    /\ UNCHANGED <<transformers, raised, pattern, area, builders, docs, first_docs, namespace_map, kmz, stats, calc>>

\* KMZPackager(drone_model, waypoints), which constructs its WPMLBuilder
Package(b) ==
    /\ pc \in {"generated", "simplified"}
    /\ pc' = "packaged"
    /\ builders' = [builders EXCEPT ![b] = Some(WPMLBuilder(waypoints))]
    /\ UNCHANGED <<transformers, waypoints, original, config, raised, pattern, area, docs, first_docs,
                   namespace_map, kmz, stats, calc>>

Returned(b, kind, doc) ==
    /\ docs' = [docs EXCEPT ![b][kind] = Some(doc)]
    /\ first_docs' = IF first_docs[b][kind] = None
                     THEN [first_docs EXCEPT ![b][kind] = Some(doc)]
                     ELSE first_docs
    /\ raised' = "none"

\* builder.build_waylines_wpml()
BuildWaylines(b) ==
    /\ pc \in {"packaged", "serialized"}
    /\ builders[b] # None
    /\ pc' = "serialized"
    /\ LET self == ValueOf(builders[b])
           map == waylines_namespaces(namespace_map)
       IN  /\ namespace_map' = map
           /\ Returned(b, "waylines", prettify(build_waylines_wpml(self), map))
    /\ UNCHANGED <<transformers, waypoints, original, config, pattern, area, builders, kmz, stats, calc>>

\* builder.build_template_kml(finish_action)
BuildTemplate(b, finish_action) ==
    /\ pc \in {"packaged", "serialized"}
    /\ builders[b] # None
    /\ pc' = "serialized"
    /\ LET self == ValueOf(builders[b])
           map == template_namespaces(namespace_map)
       IN  /\ namespace_map' = map
           /\ Returned(b, "template", prettify(build_template_kml(self, finish_action), map))
    /\ UNCHANGED <<transformers, waypoints, original, config, pattern, area, builders, kmz, stats, calc>>

\* packager.create_kmz(finish_action)
CreateKmz(b, finish_action) ==
    /\ pc \in {"packaged", "serialized"}
    /\ builders[b] # None
    /\ pc' = "serialized"
    /\ LET result == create_kmz(ValueOf(builders[b]), finish_action, namespace_map)
       IN  /\ raised' = result.raised
           /\ namespace_map' = result.map
           /\ kmz' = IF result.raised = "none" THEN result.archive ELSE kmz
    /\ UNCHANGED <<transformers, waypoints, original, config, pattern, area, builders, docs, first_docs, stats, calc>>

\* packager.get_mission_stats()
GetMissionStats(b) ==
    /\ pc \in {"packaged", "serialized"}
    /\ builders[b] # None
    /\ \E result \in get_mission_stats(ValueOf(builders[b])) :
           stats' = [stats EXCEPT ![b] = Some(result)]
    /\ UNCHANGED <<transformers, pc, waypoints, original, config, raised, pattern, area, builders, docs,
                   first_docs, namespace_map, kmz, calc>>

\* what a call of the calculator returned: the method, its arguments, the
\* value, and for a call on the value of the previous call the argument of
\* that call
Calculated(fn, camera, args, result, origin) ==
    [origin |-> origin, args |-> args, camera |-> camera, result |-> result, fn |-> fn]

GsdInputs == { Whole(2), Frac(5, 2), Frac(1, 10), Whole(10), Frac(1, 3) }
AltitudeInputs == { Whole(40), Whole(50), Frac(1, 2), Frac(575, 10), Whole(120) }
Cameras == CAMERA_PRESETS \cup {PlainCamera, WideCamera}

\* the cameras whose flight parameters stay within 32-bit integers
PlannedCameras == {PlainCamera, WideCamera}
FrontOverlaps == {50, 75, 95}
SideOverlaps == {65, 80}
Areas == {None, Some(0), Some(2500), Some(10000)}

CalculatorReturned(value) ==
    /\ pc' = "calculated"
    /\ calc' = Some(value)
    /\ UNCHANGED <<transformers, waypoints, original, config, raised, pattern, area, builders, docs,
                   first_docs, namespace_map, kmz, stats>>

\* calculator.gsd_to_altitude(gsd_cm)
GsdToAltitude(camera, gsd_cm) ==
    CalculatorReturned(Calculated("gsd_to_altitude", camera, <<gsd_cm>>,
                                  gsd_to_altitude(PhotogrammetryCalculator(camera), gsd_cm), None))

\* calculator.altitude_to_gsd(altitude_m)
AltitudeToGsd(camera, altitude_m) ==
    CalculatorReturned(Calculated("altitude_to_gsd", camera, <<altitude_m>>,
                                  altitude_to_gsd(PhotogrammetryCalculator(camera), altitude_m), None))

\* calculator.altitude_to_gsd(calculator.gsd_to_altitude(gsd_cm)), second call
GsdOfAltitude ==
    /\ calc # None
    /\ ValueOf(calc).fn = "gsd_to_altitude"
    /\ LET last == ValueOf(calc)
       IN  CalculatorReturned(Calculated("altitude_to_gsd", last.camera, <<last.result>>,
                                         altitude_to_gsd(PhotogrammetryCalculator(last.camera), last.result),
                                         Some(last.args[1])))

\* calculator.gsd_to_altitude(calculator.altitude_to_gsd(altitude_m)), second
\* call
AltitudeOfGsd ==
    /\ calc # None
    /\ ValueOf(calc).fn = "altitude_to_gsd"
    /\ LET last == ValueOf(calc)
       IN  CalculatorReturned(Calculated("gsd_to_altitude", last.camera, <<last.result>>,
                                         gsd_to_altitude(PhotogrammetryCalculator(last.camera), last.result),
                                         Some(last.args[1])))

\* calculator.calculate_flight_params(target_gsd_cm, front_overlap_pct,
\* side_overlap_pct, use_48mp, area_m2)
CalculateFlightParams(camera, target_gsd_cm, front_overlap_pct, side_overlap_pct, use_48mp, area_m2) ==
    CalculatorReturned(Calculated("calculate_flight_params", camera,
                                  <<target_gsd_cm, front_overlap_pct, side_overlap_pct, use_48mp, area_m2>>,
                                  calculate_flight_params(PhotogrammetryCalculator(camera), target_gsd_cm,
                                                          front_overlap_pct, side_overlap_pct, use_48mp,
                                                          area_m2),
                                  None))

PipelineSimplifiers ==
    { WaypointSimplifier(1, None, None, DefaultSpeedMs),
      WaypointSimplifier(95, None, None, DefaultSpeedMs),
      WaypointSimplifier(10, Some(3), None, DefaultSpeedMs),
      WaypointSimplifier(10, None, Some(1), DefaultSpeedMs) }

\* the pipeline: generate, simplify or not, package, then one call of the
\* serializer
Init ==
    /\ pc = "start"
    /\ waypoints = <<>>
    /\ original = <<>>
    /\ config = NoConfig
    /\ raised = "none"
    /\ pattern = "none"
    /\ area = NoArea
    /\ builders = [b \in BuilderIds |-> None]
    /\ docs = [b \in BuilderIds |-> NoDocs]
    /\ first_docs = [b \in BuilderIds |-> NoDocs]
    /\ namespace_map = {}
    /\ kmz = None
    /\ stats = [b \in BuilderIds |-> None]
    /\ calc = None
    /\ transformers = None

Next ==
    \/ GenerateGrid
    \/ GenerateDoubleGrid
    \/ GenerateCorridor
    \/ GenerateOrbit
    \/ \E self \in PipelineSimplifiers : Simplify(self)
    \/ Package("a")
    \/ pc = "packaged" /\ BuildWaylines("a")
    \/ pc = "packaged" /\ \E fa \in FinishActionInputs : BuildTemplate("a", fa)
    \/ pc = "packaged" /\ \E fa \in FinishActionInputs : CreateKmz("a", fa)

Spec == Init /\ [][Next]_vars

\* the simplifier called on lists the caller supplies
InitSimplifier ==
    /\ pc = "supplied"
    /\ waypoints \in SuppliedLists
    /\ original = <<>>
    /\ config = NoConfig
    /\ raised = "none"
    /\ pattern = "none"
    /\ area = NoArea
    /\ builders = [b \in BuilderIds |-> None]
    /\ docs = [b \in BuilderIds |-> NoDocs]
    /\ first_docs = [b \in BuilderIds |-> NoDocs]
    /\ namespace_map = {}
    /\ kmz = None
    /\ stats = [b \in BuilderIds |-> None]
    /\ calc = None
    /\ transformers = None

NextSimplifier == \E self \in Simplifiers : Simplify(self)

SpecSimplifier == InitSimplifier /\ [][NextSimplifier]_vars

\* missions of up to MaxDocLen waypoints on a meridian, indexed by position;
\* every waypoint takes a photo, but for at most one (skip)
MissionLists ==
    UNION { { [k \in 1..n |-> Waypoint(k - 1, 0, k - 1, 50, 0, -90, 3, k # skip)] :
                skip \in 0..n } : n \in 0..MaxDocLen }

\* two packagers that exist from the start, their calls interleaved
InitSerializer ==
    /\ pc = "packaged"
    /\ waypoints = <<>>
    /\ original = <<>>
    /\ config = NoConfig
    /\ raised = "none"
    /\ pattern = "none"
    /\ area = NoArea
    /\ builders \in [BuilderIds -> { Some(WPMLBuilder(wps)) : wps \in MissionLists }]
    /\ docs = [b \in BuilderIds |-> NoDocs]
    /\ first_docs = [b \in BuilderIds |-> NoDocs]
    /\ namespace_map = {}
    /\ kmz = None
    /\ stats = [b \in BuilderIds |-> None]
    /\ calc = None
    /\ transformers = None

NextSerializer ==
    \E b \in BuilderIds :
        \/ BuildWaylines(b)
        \/ \E fa \in FinishActionInputs : BuildTemplate(b, fa)
        \/ \E fa \in FinishActionInputs : CreateKmz(b, fa)

SpecSerializer == InitSerializer /\ [][NextSerializer]_vars

\* where a waypoint of a mission whose statistics are asked for can be
StatsPositions == { <<0, 0, 50>>, <<0, 3, 50>>, <<4, 3, 50>>, <<0, 8, 50>>, <<0, 0, 54>> }

WholeHops(wps) ==
    \A i \in 2..Len(wps) :
        hop_distance(wps[i - 1], wps[i]) * hop_distance(wps[i - 1], wps[i])
            = hop_distance_squared(wps[i - 1], wps[i])

\* missions of up to MaxDocLen waypoints, indexed by position, every hop of a
\* whole number of units (the square root is exact)
StatsMissions ==
    UNION { { wps \in [1..n -> { Waypoint(0, p[1], p[2], p[3], 0, -90, 3, photo) :
                                    p \in StatsPositions, photo \in BOOLEAN }] :
                WholeHops(wps) } : n \in 0..MaxDocLen }

\* one packager whose statistics and waylines document are asked for
InitStats ==
    /\ pc = "packaged"
    /\ waypoints = <<>>
    /\ original = <<>>
    /\ config = NoConfig
    /\ raised = "none"
    /\ pattern = "none"
    /\ area = NoArea
    /\ \E wps \in StatsMissions :
           builders = [b \in BuilderIds |->
                         IF b = "a"
                         THEN Some(WPMLBuilder([k \in 1..Len(wps) |-> [wps[k] EXCEPT !.index = k - 1]]))
                         ELSE None]
    /\ docs = [b \in BuilderIds |-> NoDocs]
    /\ first_docs = [b \in BuilderIds |-> NoDocs]
    /\ namespace_map = {}
    /\ kmz = None
    /\ stats = [b \in BuilderIds |-> None]
    /\ calc = None
    /\ transformers = None

NextStats ==
    \/ GetMissionStats("a")
    \/ BuildWaylines("a")

SpecStats == InitStats /\ [][NextStats]_vars

\* the calculator called on its own
\* the centers of the areas: whole degrees, every third meridian from one end
\* of the range of models.py Coordinate to the other
Longitudes == { 3 * k - 180 : k \in 0..120 }
Latitudes == {-90, -45, -1, 0, 1, 45, 90}

\* generator._setup_transformers(center_lon, center_lat)
SetupTransformers(center_lon, center_lat) ==
    /\ pc \in {"start", "projected"}
    /\ pc' = "projected"
    /\ transformers' = Some(setup_transformers(center_lon, center_lat))
    /\ UNCHANGED <<waypoints, original, config, raised, pattern, area, builders, docs,
                   first_docs, namespace_map, kmz, stats, calc>>

\* the projection on its own, over the centers a Coordinate can hold
InitProjection == Init
NextProjection == \E center_lon \in Longitudes, center_lat \in Latitudes : SetupTransformers(center_lon, center_lat)
SpecProjection == InitProjection /\ [][NextProjection]_vars

\* the grid generator on its own, over polygons of any convex shape
InitGrid == Init
NextGrid == GenerateGridOverPolygon
SpecGrid == InitGrid /\ [][NextGrid]_vars

InitCalculator ==
    /\ pc = "start"
    /\ waypoints = <<>>
    /\ original = <<>>
    /\ config = NoConfig
    /\ raised = "none"
    /\ pattern = "none"
    /\ area = NoArea
    /\ builders = [b \in BuilderIds |-> None]
    /\ docs = [b \in BuilderIds |-> NoDocs]
    /\ first_docs = [b \in BuilderIds |-> NoDocs]
    /\ namespace_map = {}
    /\ kmz = None
    /\ stats = [b \in BuilderIds |-> None]
    /\ calc = None
    /\ transformers = None

NextCalculator ==
    \/ \E camera \in Cameras, gsd_cm \in GsdInputs : GsdToAltitude(camera, gsd_cm)
    \/ \E camera \in Cameras, altitude_m \in AltitudeInputs : AltitudeToGsd(camera, altitude_m)
    \/ GsdOfAltitude
    \/ AltitudeOfGsd
    \/ \E camera \in PlannedCameras, target_gsd_cm \in GsdInputs, front_overlap_pct \in FrontOverlaps,
          side_overlap_pct \in SideOverlaps, use_48mp \in BOOLEAN, area_m2 \in Areas :
           CalculateFlightParams(camera, target_gsd_cm, front_overlap_pct, side_overlap_pct,
                                 use_48mp, area_m2)

SpecCalculator == InitCalculator /\ [][NextCalculator]_vars

----------------------------------------------------------------------------
(* Claims about WaypointSimplifier.simplify *)

Simplified == pc = "simplified"
NoBudget(self) == ~Truthy(self.max_distance_between_m) /\ ~Truthy(self.max_time_between_s)
Last(s) == s[Len(s)]

\* C2: for every non-empty input, every angle threshold and every spacing
\* configuration, the first and the last waypoint returned by simplify lie at
\* the positions of the first and the last waypoint of the input.
C2_EndpointsKept ==
    (Simplified /\ original # <<>>) =>
        /\ waypoints # <<>>
        /\ Position(waypoints[1]) = Position(original[1])
        /\ Position(Last(waypoints)) = Position(Last(original))

\* a run that dropped waypoints of a longer list under a time budget
C2_Witness ==
    /\ Simplified
    /\ Len(original) >= 4
    /\ Len(waypoints) < Len(original)
    /\ Truthy(config.max_time_between_s)
    /\ Position(Last(waypoints)) = Position(Last(original))

\* C3: whatever the length of the input and whatever index values it carries,
\* the list returned by simplify has the indices 0..n-1 in emission order.
C3_IndicesContiguous ==
    Simplified => \A i \in 1..Len(waypoints) : waypoints[i].index = i - 1

\* C4 as claimed: for the same input and the same spacing configuration (none,
\* distance or time budget, waypoints of any speeds), a higher angle threshold
\* never returns more waypoints.
C4_MonotoneAnySpeeds ==
    Simplified =>
        \A a \in AngleThresholds :
            a >= config.angle_threshold_deg =>
                Len(simplify([config EXCEPT !.angle_threshold_deg = a], original))
                    <= Len(waypoints)

SameSpeeds(wps) == \A i, j \in 1..Len(wps) : wps[i].speed = wps[j].speed

\* C4 amended: the same, for inputs whose waypoints all have the same speed
\* whenever a time budget is configured.
C4_MonotoneSameSpeed ==
    (Simplified /\ (Truthy(config.max_time_between_s) => SameSpeeds(original))) =>
        \A a \in AngleThresholds :
            a >= config.angle_threshold_deg =>
                Len(simplify([config EXCEPT !.angle_threshold_deg = a], original))
                    <= Len(waypoints)

\* a run under a time budget on a list of equal speeds for which a higher
\* threshold returns strictly fewer waypoints
C4_Witness ==
    /\ Simplified
    /\ Truthy(config.max_time_between_s)
    /\ SameSpeeds(original)
    /\ Len(original) >= 4
    /\ \E a \in AngleThresholds :
          /\ a > config.angle_threshold_deg
          /\ Len(simplify([config EXCEPT !.angle_threshold_deg = a], original))
                < Len(waypoints)

TurnScenario(self) == NoBudget(self) /\ self.angle_threshold_deg = 1
MidSequence == 2..(StraightLen - 2)

\* C5 as claimed: without budget and with threshold 1, the straight run of
\* heading 0 is reduced to 2 waypoints, and with one waypoint of heading 90
\* inserted mid-sequence (not next to an endpoint) simplify keeps exactly 4.
C5_TurnKeepsFour ==
    (Simplified /\ TurnScenario(config)) =>
        /\ original = StraightRun(StraightLen) => Len(waypoints) = 2
        /\ \A p \in MidSequence :
              original = RunWithTurnAt(StraightLen, p) => Len(waypoints) = 4

\* C5 amended: the straight run is reduced to its two endpoints; with the
\* waypoint of heading 90 inserted at p, simplify keeps exactly 5 waypoints:
\* the endpoints, the waypoint before the turn, the turn and the waypoint
\* after it (where the heading turns back).
C5_TurnKeepsFive ==
    (Simplified /\ TurnScenario(config)) =>
        /\ original = StraightRun(StraightLen) =>
              /\ Len(waypoints) = 2
              /\ Position(waypoints[1]) = Position(original[1])
              /\ Position(waypoints[2]) = Position(Last(original))
        /\ \A p \in MidSequence :
              original = RunWithTurnAt(StraightLen, p) =>
                  /\ Len(waypoints) = 5
                  /\ { Position(waypoints[i]) : i \in 1..5 } =
                        { Position(At(original, k)) : k \in {0, p - 1, p, p + 1, StraightLen} }

\* a run on the straight run with the turn inserted at position 2
C5_Witness ==
    /\ Simplified
    /\ TurnScenario(config)
    /\ original = RunWithTurnAt(StraightLen, 2)
    /\ Len(waypoints) = 5

----------------------------------------------------------------------------
(* Claims about the pipeline and the serializer *)

Waylines(b) == ValueOf(docs[b].waylines)
HasWaylines(b) == docs[b].waylines # None
HasTemplate(b) == docs[b].template # None

\* a waypoint without its index
Unindexed(wp) == [wp EXCEPT !.index = 0]

\* whether the waypoints of a occur in b in the same order (from position i
\* of a and position j of b on)
RECURSIVE IsSubsequenceFrom(_, _, _, _)
IsSubsequenceFrom(a, i, b, j) ==
    IF i > Len(a) THEN TRUE
    ELSE IF j > Len(b) THEN FALSE
    ELSE IF Unindexed(a[i]) = Unindexed(b[j]) THEN IsSubsequenceFrom(a, i + 1, b, j + 1)
    ELSE IsSubsequenceFrom(a, i, b, j + 1)

RECURSIVE action_ids_from(_, _)
action_ids_from(placemarks, k) ==
    IF k > Len(placemarks) THEN <<>>
    ELSE (IF placemarks[k].actionGroups = <<>> THEN <<>>
          ELSE [i \in 1..Len(placemarks[k].actionGroups[1].actions) |->
                    placemarks[k].actionGroups[1].actions[i].actionId])
         \o action_ids_from(placemarks, k + 1)

\* C6: in every waylines document the action ids read in document order are
\* 1, 2, 3, ...: one counter for all the action groups of the document, which
\* starts at 1 in every serialization.
C6_ActionIdsCount ==
    \A b \in BuilderIds :
        HasWaylines(b) =>
            LET ids == action_ids_from(Waylines(b).tree.placemarks, 1)
            IN  ids = [i \in 1..Len(ids) |-> i]

\* the placemarks of a written document and the prefix of their elements
Identifiers(written) ==
    [placemarks |-> written.tree.placemarks, vendor_prefix |-> written.vendor_prefix]

InsufficientArea ==
    CASE pattern \in {"grid", "double_grid"} ->
            ValueOf(area.polygon_coords) < 3
      [] pattern = "corridor" ->
            /\ ~(Truthy(area.polygon_coords) /\ ValueOf(area.polygon_coords) >= 3)
            /\ ~(Truthy(area.centerline_coords) /\ ValueOf(area.centerline_coords) >= 2)
      [] pattern = "orbit" ->
            /\ ~(Truthy(area.polygon_coords) /\ ValueOf(area.polygon_coords) >= 3)
            /\ ~(area.center /\ Truthy(area.radius_m))
      [] OTHER -> FALSE

\* C9: a generator called with too few points returns the empty list and
\* raises nothing.
C9_InsufficientIsEmpty ==
    (pc \in {"generated", "failed"} /\ InsufficientArea) =>
        (raised = "none" /\ waypoints = <<>>)

\* C10: in a waylines document the first and the last placemark carry the
\* turn mode toPointAndStopWithContinuityCurvature and every placemark in
\* between carries toPointAndPassWithContinuityCurvature.
C10_TurnModeByPosition ==
    \A b \in BuilderIds :
        HasWaylines(b) =>
            LET placemarks == Waylines(b).tree.placemarks
            IN  \A k \in 1..Len(placemarks) :
                    placemarks[k].waypointTurnMode =
                        IF k = 1 \/ k = Len(placemarks)
                        THEN "toPointAndStopWithContinuityCurvature"
                        ELSE "toPointAndPassWithContinuityCurvature"

----------------------------------------------------------------------------
(* Claims about the two documents and the package *)

Template(b) == ValueOf(docs[b].template)

\* C11: the mission info elements (author, createTime, updateTime) are in
\* the template document and never in the waylines document, and the
\* placemarks of the waypoints are in the waylines document and never in the
\* template document.
C11_DocumentsNotConflated ==
    \A b \in BuilderIds :
        /\ HasWaylines(b) =>
              /\ Waylines(b).tree.mission_info = {}
              /\ Len(Waylines(b).tree.placemarks) = Len(ValueOf(builders[b]).waypoints)
        /\ HasTemplate(b) =>
              /\ {"author", "createTime", "updateTime"} \subseteq Template(b).tree.mission_info
              /\ Template(b).tree.placemarks = <<>>

\* C12: every call of create_kmz on a mission with waypoints returns an
\* archive of exactly two entries, wpmz/template.kml holding the template
\* document and wpmz/waylines.wpml holding the waylines document.
C12_ArchiveHasTwoEntries ==
    [][\A b \in BuilderIds, fa \in FinishActionInputs :
         (CreateKmz(b, fa) /\ ValueOf(builders[b]).waypoints # <<>>) =>
             /\ raised' = "none"
             /\ kmz' # None
             /\ Len(ValueOf(kmz')) = 2
             /\ ValueOf(kmz')[1].name = "wpmz/template.kml"
             /\ ValueOf(kmz')[1].content.tree = build_template_kml(ValueOf(builders[b]), fa)
             /\ ValueOf(kmz')[2].name = "wpmz/waylines.wpml"
             /\ ValueOf(kmz')[2].content.tree = build_waylines_wpml(ValueOf(builders[b]))]_vars

----------------------------------------------------------------------------
(* Claims about the mission statistics *)

Mission(b) == ValueOf(builders[b]).waypoints
Stats(b) == ValueOf(stats[b])
Place(wp) == <<wp.longitude, wp.latitude, wp.altitude>>

\* the parts of the statistics that do not depend on how far apart the
\* waypoints are: the count is the number of waypoints of the mission and of
\* placemarks of its waylines document, the photos are the waypoints with
\* take_photo, and an empty mission has distance 0
StatsCounts(b) ==
    /\ Stats(b).waypoint_count = Len(Mission(b))
    /\ HasWaylines(b) => Stats(b).waypoint_count = Len(Waylines(b).tree.placemarks)
    /\ Stats(b).estimated_photos = Cardinality({ i \in 1..Len(Mission(b)) : Mission(b)[i].take_photo })
    /\ Mission(b) = <<>> => Stats(b).estimated_distance_m = 0

\* get_mission_stats leaves the waypoints of the mission as they were
StatsLeaveMission == [][\A b \in BuilderIds : GetMissionStats(b) => builders' = builders]_vars

----------------------------------------------------------------------------
(* Claims about the pattern generators *)

\* the generator with its flight angle turned by a quarter
Perpendicular(self) == [self EXCEPT !.flight_angle_deg = (self.flight_angle_deg + 90) % 360]

\* C14: the list DoubleGrid.generate returns is the Grid pass at angle_deg
\* followed by the Grid pass at (angle_deg + 90) mod 360, waypoint by waypoint
\* (indices aside), and its indices are 0, 1, ... up to n1 + n2 - 1.
C14_TwoPassesInOrder ==
    [][(pc = "start" /\ pattern' = "double_grid") =>
       \A self \in Generators, n \in {2, 3},
          clip1 \in (0..MaxLines) \X LineLengths, clip2 \in (0..MaxLines) \X LineLengths :
            DoubleGridCall(self, n, clip1, clip2) =>
                LET first_pass == grid_generate(self, n, clip1[1], clip1[2])
                    second_pass == grid_generate(Perpendicular(self), n, clip2[1], clip2[2])
                    n1 == Len(first_pass)
                    n2 == Len(second_pass)
                IN  /\ Len(waypoints') = n1 + n2
                    /\ \A k \in 1..n1 : Unindexed(waypoints'[k]) = Unindexed(first_pass[k])
                    /\ \A k \in 1..n2 : Unindexed(waypoints'[n1 + k]) = Unindexed(second_pass[k])
                    /\ \A k \in 1..(n1 + n2) : waypoints'[k].index = k - 1]_vars

\* a crosshatch of two passes of different lengths, flown at right angles
C14_Witness ==
    /\ pc = "generated"
    /\ pattern = "double_grid"
    /\ Len(waypoints) >= 5
    /\ waypoints[1].heading # waypoints[Len(waypoints)].heading
    /\ \E k \in 2..Len(waypoints) :
          /\ waypoints[k].heading = (waypoints[1].heading + 90) % 360
          /\ k - 1 # Len(waypoints) - (k - 1)

----------------------------------------------------------------------------
(* Claims about the budgets of the simplifier *)

WithoutDistance(self) == [self EXCEPT !.max_distance_between_m = None]

C16_HeadingInRange ==
    pattern # "none" =>
        \A k \in 1..Len(waypoints) : waypoints[k].heading >= 0 /\ waypoints[k].heading < 360

\* a line pattern flown westwards (atan2 gives -90) next to one flown
\* eastwards or northwards
C16_Witness ==
    /\ pc = "generated"
    /\ pattern \in {"grid", "double_grid", "corridor"}
    /\ \E k \in 1..Len(waypoints) : waypoints[k].heading = 270
    /\ \E k \in 1..Len(waypoints) : waypoints[k].heading \in {0, 90}

\* an orbit whose station opposite the start looks back over north
\* ((180 + 180) % 360 = 0)
C16_WitnessOrbit ==
    /\ pc = "generated"
    /\ pattern = "orbit"
    /\ \E k \in 1..Len(waypoints) : waypoints[k].heading = 0

----------------------------------------------------------------------------
(* Claims about the calculator *)

LastCall == ValueOf(calc)

\* C17: converting a value with one of gsd_to_altitude and altitude_to_gsd and
\* the result with the other gives the value back, for every camera; with
\* sensor width 10, focal length 5 and image width 4000 a GSD of 2 gives
\* altitude 40 and altitude 40 gives GSD 2.
C17_Inverses ==
    calc # None =>
        /\ LastCall.origin # None => LastCall.result = ValueOf(LastCall.origin)
        /\ (LastCall.camera = PlainCamera /\ LastCall.fn = "gsd_to_altitude"
               /\ LastCall.args[1] = Whole(2)) => LastCall.result = Whole(40)
        /\ (LastCall.camera = PlainCamera /\ LastCall.fn = "altitude_to_gsd"
               /\ LastCall.args[1] = Whole(40)) => LastCall.result = Whole(2)

\* a GSD of a third of a centimetre taken to an altitude and back with the
\* optics of the presets
C17_Witness ==
    /\ calc # None
    /\ LastCall.camera \in CAMERA_PRESETS
    /\ LastCall.fn = "altitude_to_gsd"
    /\ LastCall.origin = Some(Frac(1, 3))
    /\ LastCall.args[1] # Frac(1, 3)

\* C18: when a positive area is supplied, the estimated number of photos is
\* area / (photo_spacing * line_spacing) * 1.2 rounded up to a whole number.
C18_PhotosRoundedUp ==
    (calc # None /\ LastCall.fn = "calculate_flight_params"
        /\ Truthy(LastCall.args[5]) /\ ValueOf(LastCall.args[5]) > 0) =>
        LET self == PhotogrammetryCalculator(LastCall.camera)
            altitude == gsd_to_altitude(self, LastCall.args[1])
            spacing == calculate_spacing(self, altitude, LastCall.args[2], LastCall.args[3])
            unrounded == Times2(Over(Whole(ValueOf(LastCall.args[5])), Times2(spacing[1], spacing[2])),
                                Frac(12, 10))
        IN  LastCall.result.estimated_photos = Ceil(unrounded)

\* a corridor was generated from a polygon and has waypoints
PolygonCorridor ==
    /\ pc = "generated"
    /\ pattern = "corridor"
    /\ Truthy(area.polygon_coords)
    /\ ValueOf(area.polygon_coords) >= 3
    /\ waypoints # <<>>

Extent(S) == (CHOOSE x \in S : \A y \in S : x >= y) - Min(S)

\* C19: the flight lines of a corridor generated from a polygon follow the
\* long edges of the polygon's minimum rotated rectangle.  The rectangle of
\* the model has long edges of 6 units running north and short edges of 4
\* units running east, the extension is 2 units at either end: every waypoint
\* heads north or south, the lines reach 6 + 2 + 2 units from south to north
\* and lie within the 4 units of the short edge from west to east.
C19_FollowsLongAxis ==
    PolygonCorridor =>
        /\ \A k \in 1..Len(waypoints) : waypoints[k].heading \in {0, 180}
        /\ Extent({ waypoints[k].latitude : k \in 1..Len(waypoints) }) = 6 + 2 + 2
        /\ Extent({ waypoints[k].longitude : k \in 1..Len(waypoints) }) <= 4

\* what the code does instead: the lines run along the short edges (4 + 2 + 2
\* units from west to east) and are spread over 4 units of the long edges
C19_RunsAcross ==
    PolygonCorridor =>
        /\ \A k \in 1..Len(waypoints) : waypoints[k].heading \in {90, 270}
        /\ Extent({ waypoints[k].longitude : k \in 1..Len(waypoints) }) = 4 + 2 + 2
        /\ Extent({ waypoints[k].latitude : k \in 1..Len(waypoints) }) <= 4

----------------------------------------------------------------------------
(* Claims about the critical waypoints *)

\* min(|h_i - h_(i-1)|, 360 - |h_i - h_(i-1)|)
CircularDifference(wps, i) ==
    LET d == Abs(At(wps, i).heading - At(wps, i - 1).heading)
    IN  IF d <= 360 - d THEN d ELSE 360 - d

\* the positions the turns and the endpoints make critical
TurnsAndEndpoints(self, wps) ==
    {0, Len(wps) - 1} \cup
    { j \in 0..(Len(wps) - 1) :
        \E i \in 1..(Len(wps) - 1) :
            /\ CircularDifference(wps, i) >= self.angle_threshold_deg
            /\ j \in {i - 1, i} }

\* C20: without a budget, simplify returns of an input of more than 2
\* waypoints exactly the waypoints at the first and the last position and at
\* the positions i - 1 and i of every i whose circular heading difference is
\* at least the threshold, in input order; a change from 355 to 5 is one of
\* 10 degrees.
C20_KeptAreTurnsAndEndpoints ==
    (Simplified /\ NoBudget(config) /\ Len(original) > 2) =>
        LET order == sorted(TurnsAndEndpoints(config, original))
        IN  /\ Len(waypoints) = Len(order)
            /\ \A k \in 1..Len(order) : Unindexed(waypoints[k]) = Unindexed(At(original, order[k]))
            /\ original = WrapRun(StraightLen) =>
                  (Len(waypoints) > 2 <=> config.angle_threshold_deg <= 10)

\* the run turning from 355 to 5, simplified with threshold 10: the turn is
\* kept and a waypoint after it is dropped
C20_Witness ==
    /\ Simplified
    /\ NoBudget(config)
    /\ original = WrapRun(StraightLen)
    /\ config.angle_threshold_deg = 10
    /\ Len(waypoints) = 4

----------------------------------------------------------------------------
(* Claims about the distance budget *)

\* the input positions of the waypoints simplify returned (the supplied lists
\* run north, so a latitude occurs at one position only)
KeptPositions ==
    { i \in 0..(Len(original) - 1) :
        \E k \in 1..Len(waypoints) : waypoints[k].latitude = At(original, i).latitude }

\* the length of the raw hops from position a to position b
RECURSIVE RawLength(_, _, _)
RawLength(wps, a, b) ==
    IF b <= a THEN 0
    ELSE RawLength(wps, a, b - 1) +
         haversine_distance(At(wps, b - 1).latitude, At(wps, b - 1).longitude,
                            At(wps, b).latitude, At(wps, b).longitude)

\* a and b are kept and nothing between them is
ConsecutiveKept(a, b) ==
    /\ a \in KeptPositions
    /\ b \in KeptPositions
    /\ a < b
    /\ \A c \in KeptPositions : ~(a < c /\ c < b)

DistanceBudgetOnly(self) ==
    /\ Truthy(self.max_distance_between_m)
    /\ ValueOf(self.max_distance_between_m) > 0
    /\ ~Truthy(self.max_time_between_s)

----------------------------------------------------------------------------
(* Claims about what simplify leaves alone *)

\* C22: a call of simplify leaves the list it was given as it was, waypoint
\* by waypoint, and returns waypoints of that list in their original order:
\* every returned waypoint equals, the index aside, the input waypoint at a
\* position behind the position of the returned waypoint before it.
C22_InputKeptOutputSubsequence ==
    [][pc' = "simplified" =>
          /\ original' = waypoints
          /\ IsSubsequenceFrom(waypoints', 1, waypoints, 1)]_vars

\* a call that dropped waypoints and gave a kept one a new index
C22_Witness ==
    /\ Simplified
    /\ Len(waypoints) >= 3
    /\ Len(waypoints) < Len(original)
    /\ \E k \in 1..Len(waypoints) :
          \A i \in 1..Len(original) : waypoints[k] # original[i]

----------------------------------------------------------------------------
(* Claims about the lines of a corridor *)

Corridor ==
    /\ pc = "generated"
    /\ pattern = "corridor"
    /\ waypoints # <<>>

\* the coordinate of a waypoint across the centerline: the centerline made
\* from a polygon runs east, a given centerline runs north
AcrossCenterline(wp) ==
    IF Truthy(area.polygon_coords) /\ ValueOf(area.polygon_coords) >= 3
    THEN wp.latitude
    ELSE wp.longitude

\* C23: consecutive emitted lines of a corridor run in opposite directions,
\* also when the offset of a line failed and the line was left out: where a
\* waypoint is followed by a waypoint of another line, the two headings are
\* 180 degrees apart.
C23_Serpentine ==
    Corridor =>
        \A k \in 1..(Len(waypoints) - 1) :
            AcrossCenterline(waypoints[k]) # AcrossCenterline(waypoints[k + 1]) =>
                Abs(waypoints[k].heading - waypoints[k + 1].heading) = 180

----------------------------------------------------------------------------
(* Claims about the order of the scan lines *)

Grid ==
    /\ pc = "generated"
    /\ pattern = "grid"
    /\ waypoints # <<>>

\* the positions at which an emitted line starts: consecutive emitted lines
\* head in opposite directions
LineStarts ==
    { k \in 1..Len(waypoints) : k = 1 \/ waypoints[k].heading # waypoints[k - 1].heading }

\* the flight angle: the first emitted line is not reversed, and a scan line
\* turned by -angle heads 90 + angle
ScanAngle == (waypoints[1].heading + 270) % 360

\* the offset of a waypoint across the scan lines (times the square root of 2
\* for a diagonal angle): the scan lines are stepped along (sin a, cos a)
ScanOffset(wp) == wp.longitude * sin_deg(ScanAngle) + wp.latitude * cos_deg(ScanAngle)

\* C24: whatever the flight angle, the grid emits its lines in monotone order
\* of their offset across the scan lines: the offsets of the emitted lines,
\* in the order of emission, all rise or all fall.
C24_LinesInOffsetOrder ==
    Grid =>
        \/ \A j, k \in LineStarts :
              j < k => ScanOffset(waypoints[j]) < ScanOffset(waypoints[k])
        \/ \A j, k \in LineStarts :
              j < k => ScanOffset(waypoints[j]) > ScanOffset(waypoints[k])

\* what holds instead at a multiple of 90 degrees
C24_CompassLinesInOffsetOrder ==
    (Grid /\ ScanAngle % 90 = 0) => C24_LinesInOffsetOrder

----------------------------------------------------------------------------
(* Claims about the photo stations of a segment *)

\* the lines behind a list that the grid generator returns
GridLines(self, n, num_clipped, length) ==
    IF n < 3 THEN <<>> ELSE generate_grid_lines(self, num_clipped, length)

\* the lines behind a list that the corridor generator returns
CorridorLines(self, polygon_coords, centerline_coords, corridor_width_m, num_lines, g) ==
    IF Truthy(polygon_coords) /\ ValueOf(polygon_coords) >= 3
    THEN polygon_lines(self, num_lines, g)
    ELSE IF Truthy(centerline_coords) /\ ValueOf(centerline_coords) >= 2
    THEN centerline_lines(self,
             IF Truthy(corridor_width_m) THEN ValueOf(corridor_width_m) ELSE 50,
             num_lines, g)
    ELSE <<>>

\* the calls of the two generators: <<pattern, generator, lines, returned list>>
SegmentedCalls ==
    { <<"grid", self, GridLines(self, n, num_clipped, length),
        grid_generate(self, n, num_clipped, length)>> :
        self \in Generators, n \in {2, 3}, num_clipped \in 0..MaxLines, length \in LineLengths }
    \cup
    UNION { { <<"corridor", self,
                CorridorLines(self, polygon_coords, centerline_coords, corridor_width_m,
                              num_lines, Geometry(6, 4, length, failed, right_reversed)),
                corridor_generate(self, polygon_coords, centerline_coords, corridor_width_m,
                                  num_lines, Geometry(6, 4, length, failed, right_reversed))>> :
                self \in Generators,
                polygon_coords \in {None, Some(4)},
                centerline_coords \in {None, Some(2)},
                corridor_width_m \in {None, Some(6)},
                num_lines \in 1..(MaxLines + 2),
                length \in LineLengths,
                failed \in {{}, {1}} } : right_reversed \in BOOLEAN }

\* the stations of a segment begin and end at its end points and are no
\* further apart than the photo spacing
StationsFit(self, line) ==
    LET stations == line_stations(self, line, 0, -90)
        first == line[1]
        last == line[Len(line)]
    IN  /\ Position(stations[1]) = to_wgs84(first[1], first[2])
        /\ Position(stations[Len(stations)]) = to_wgs84(last[1], last[2])
        /\ \A j \in 1..(Len(stations) - 1) :
              haversine_distance(stations[j].latitude, stations[j].longitude,
                                 stations[j + 1].latitude, stations[j + 1].longitude)
                  <= self.flight_params.photo_spacing_m

\* C25: on every segment of a grid or of a corridor the first and the last
\* photo station lie on the end points of the segment, and consecutive
\* stations are no further apart than photo_spacing.
C25_StationsWithinSpacing ==
    [][(pc = "start" /\ pattern' \in {"grid", "corridor"}) =>
          \A call \in SegmentedCalls :
              (call[1] = pattern' /\ call[4] = waypoints') =>
                  \A k \in 1..Len(call[3]) : StationsFit(call[2], call[3][k])]_vars

\* what holds of every segment: the stations begin and end at the end points
EndpointsAreStations(self, line) ==
    LET stations == line_stations(self, line, 0, -90)
        first == line[1]
        last == line[Len(line)]
    IN  /\ Position(stations[1]) = to_wgs84(first[1], first[2])
        /\ Position(stations[Len(stations)]) = to_wgs84(last[1], last[2])

C25_EndpointsAreStations ==
    [][(pc = "start" /\ pattern' \in {"grid", "corridor"}) =>
          \A call \in SegmentedCalls :
              (call[1] = pattern' /\ call[4] = waypoints') =>
                  \A k \in 1..Len(call[3]) : EndpointsAreStations(call[2], call[3][k])]_vars

----------------------------------------------------------------------------
(* Claims about the gimbal pitch of an orbit *)

Orbit ==
    /\ pc = "generated"
    /\ pattern = "orbit"
    /\ waypoints # <<>>

\* the pitch the call was given
StartPitch == ValueOf(area.start_gimbal_pitch)

\* the ring of a waypoint: the rings of the model are 10 m apart above 60 m
Ring(wp) == (wp.altitude - 60) \div 10

\* C26 as stated: every waypoint of ring 0 has the start pitch, every later
\* ring is pitched 10 degrees above the ring before it or clamped, and no
\* waypoint is pitched above -15 degrees.
C26_RingZeroAtStartPitch ==
    Orbit =>
        \A k \in 1..Len(waypoints) :
            /\ Ring(waypoints[k]) = 0 => waypoints[k].gimbal_pitch = StartPitch
            /\ waypoints[k].gimbal_pitch <= -15
            /\ \A j \in 1..Len(waypoints) :
                  Ring(waypoints[k]) = Ring(waypoints[j]) + 1 =>
                      waypoints[k].gimbal_pitch \in {waypoints[j].gimbal_pitch + 10, -15}

\* C26 as the code has it: every waypoint of ring k is pitched at the lower
\* of -15 degrees and the start pitch plus 10 degrees per ring, ring 0
\* included, so that no waypoint is pitched above -15 degrees.
C26_RingsClampedFromZero ==
    Orbit =>
        \A k \in 1..Len(waypoints) :
            LET pitch == StartPitch + 10 * Ring(waypoints[k])
            IN  waypoints[k].gimbal_pitch = IF pitch < -15 THEN pitch ELSE -15

\* an orbit of two rings started above -15 degrees: both rings are clamped
C26_Witness ==
    /\ Orbit
    /\ StartPitch = -10
    /\ \E k \in 1..Len(waypoints) : Ring(waypoints[k]) = 1
    /\ \A k \in 1..Len(waypoints) : waypoints[k].gimbal_pitch = -15

\* an orbit whose first ring has the start pitch and whose second is clamped
C26_WitnessClampedAbove ==
    /\ Orbit
    /\ StartPitch = -20
    /\ \E k \in 1..Len(waypoints) :
          Ring(waypoints[k]) = 0 /\ waypoints[k].gimbal_pitch = -20
    /\ \E k \in 1..Len(waypoints) :
          Ring(waypoints[k]) = 1 /\ waypoints[k].gimbal_pitch = -15

----------------------------------------------------------------------------
(* Claims about the finish action *)

\* C27: for every finish action passed to create_kmz, the package it returns
\* holds a template and a waylines document whose finishAction both equal
\* that value.
C27_BothCarryFinishAction ==
    [][\A b \in BuilderIds, fa \in FinishActionInputs :
         CreateKmz(b, fa) =>
             /\ raised' = "none"
             /\ kmz' # None
             /\ ValueOf(kmz')[1].content.tree.finishAction = fa
             /\ ValueOf(kmz')[2].content.tree.finishAction = fa]_vars

\* the same of the documents the two builders return when called directly
\* with one finish action: they carry the same finishAction
C27_DocumentsAgree ==
    \A b \in BuilderIds :
        (HasWaylines(b) /\ HasTemplate(b)) =>
            Waylines(b).tree.finishAction = Template(b).tree.finishAction

----------------------------------------------------------------------------
(* Claims about the flight parameters handed to the patterns *)

FlightParamsCall == calc # None /\ LastCall.fn = "calculate_flight_params"

\* x >= y for two fractions
AtLeast(x, y) == x[1] * y[2] >= y[1] * x[2]

\* C28: the altitude, line spacing, photo spacing and speed of the returned
\* FlightParams are the results of the optics equations as they are, not
\* rounded.
C28_ParamsUnrounded ==
    FlightParamsCall =>
        LET self == PhotogrammetryCalculator(LastCall.camera)
            altitude == gsd_to_altitude(self, LastCall.args[1])
            spacing == calculate_spacing(self, altitude, LastCall.args[2], LastCall.args[3])
        IN  /\ LastCall.result.altitude_m = altitude
            /\ LastCall.result.photo_spacing_m = spacing[1]
            /\ LastCall.result.line_spacing_m = spacing[2]
            /\ LastCall.result.max_speed_ms = calculate_max_speed(self, spacing[1], LastCall.args[4])

\* what follows from C28 in the spec's words: the GSD of the returned altitude
\* is the returned GSD, to the three decimals the GSD is given with
C28_AltitudeGivesGsd ==
    FlightParamsCall =>
        round(altitude_to_gsd(PhotogrammetryCalculator(LastCall.camera), LastCall.result.altitude_m), 3)
            = LastCall.result.gsd_cm_px

\* C29: in both capture modes the returned photo spacing divided by the
\* returned maximum speed is at least the returned photo interval.
C29_IntervalKeptAtMaxSpeed ==
    FlightParamsCall =>
        AtLeast(Over(LastCall.result.photo_spacing_m, LastCall.result.max_speed_ms),
                LastCall.result.photo_interval_s)

----------------------------------------------------------------------------
(* Claims about the projection *)

Projection == ValueOf(transformers)

\* C30: for every center in the range of a Coordinate the projection chosen
\* is a UTM zone: the zone lies in 1..60 and the EPSG code in 32601..32660
\* (north) or 32701..32760 (south).
C30_ZoneIsUtm ==
    transformers # None =>
        /\ Projection.utm_zone \in 1..60
        /\ Projection.epsg_utm \in (32601..32660) \cup (32701..32760)

\* what holds instead: west of the 180th meridian the zone is a UTM zone, the
\* one whose 6 degrees hold the center, north for latitudes from 0 upwards
C30_ZoneIsUtmWestOf180 ==
    (transformers # None /\ Projection.center[1] < 180) =>
        /\ Projection.utm_zone \in 1..60
        /\ 6 * (Projection.utm_zone - 1) - 180 <= Projection.center[1]
        /\ Projection.center[1] < 6 * Projection.utm_zone - 180
        /\ Projection.epsg_utm =
               (IF Projection.center[2] >= 0 THEN 32600 ELSE 32700) + Projection.utm_zone

====
